---- MODULE Spec2Model ----
(***************************************************************************)
(* Model of the /ask route (ask.js): the ask orchestrator, the store       *)
(* classifier, the sequential multi-store retrieval loop, the merge of     *)
(* the per-store results and the detached persistence tasks that write the *)
(* session transcript and the provider logs after the response was sent.   *)
(*                                                                         *)
(* One handler runs at a time (variable h holds its locals and position).  *)
(* For the request being served the model keeps the responses it was sent  *)
(* (resp), the external calls it made (calls) and the order of its         *)
(* response and file-system events (evs); bg[r] is the detached            *)
(* persistence task of request r.  Every await of the code is a step       *)
(* boundary of the model.                                                  *)
(***************************************************************************)
EXTENDS Integers, Sequences, FiniteSets, TLC

(* ------------------------------ bounds -------------------------------- *)
\* number of /ask requests served in one behaviour
MaxRequests == 1
\* largest value of the wall clock
MaxClock == 1
\* number of file-system operations that fail in one behaviour
MaxFaults == 1
\* number of turns persisted on one session in the session store
\* specifications
MaxAppends == 3

(* --------------------------- program constants ------------------------ *)
\* allGrounding.slice(0, 10)
GroundingLimit == 10

(* ------------------------------ text ---------------------------------- *)
\* Emails, session ids and file names are sequences of one-character strings.
AllowedChars == {"a", "b", "m", "p", "s", "u", "x", "y", "0", "1", "2", "3", "@", ".", "_", "-"}

\* email.replace(/[^a-zA-Z0-9@._-]/g, "_")
Sanitize(e) == [i \in DOMAIN e |-> IF e[i] \in AllowedChars THEN e[i] ELSE "_"]

\* The segments of a path: the parts between its "/" characters.
\* (cur is the segment being read, acc the segments read before it)
RECURSIVE Split(_, _, _)
Split(path, cur, acc) ==
  IF path = <<>> THEN Append(acc, cur)
  ELSE IF Head(path) = "/" THEN Split(Tail(path), <<>>, Append(acc, cur))
  ELSE Split(Tail(path), Append(cur, Head(path)), acc)

Segments(path) == Split(path, <<>>, <<>>)

\* path.normalize on segments: "" and "." are dropped, ".." takes the segment
\* before it away (and stays when there is none: the path leaves the
\* directory)
RECURSIVE Resolve(_, _)
Resolve(segs, acc) ==
  IF segs = <<>> THEN acc
  ELSE LET seg == Head(segs)
       IN IF seg = <<>> \/ seg = <<".">> THEN Resolve(Tail(segs), acc)
          ELSE IF seg = <<".", ".">> /\ acc # <<>> /\ acc[Len(acc)] # <<".", ".">>
            THEN Resolve(Tail(segs), SubSeq(acc, 1, Len(acc) - 1))
          ELSE Resolve(Tail(segs), Append(acc, seg))

RECURSIVE JoinPath(_)
JoinPath(segs) ==
  IF segs = <<>> THEN <<>>
  ELSE IF Len(segs) = 1 THEN segs[1]
  ELSE segs[1] \o <<"/">> \o JoinPath(Tail(segs))

\* path.join(CHAT_DIR, `${safeEmail}__${sessionId}.json`): the path below
\* CHAT_DIR, normalised as path.join does, without the extension.  The email
\* is sanitised, the session id is not.
getSessionFile(email, sessionId) ==
  JoinPath(Resolve(Segments(Sanitize(email) \o <<"_", "_">> \o sessionId), <<>>))

\* path.join(PROVIDER_LOGS_DIR, `${safe}.json`)
getProviderFile(providerEmail) == Sanitize(providerEmail)

\* JS truthiness of a string (or of a missing value, written as the empty one)
Truthy(s) == Len(s) > 0

\* a || b on strings
OrElse(a, b) == IF Truthy(a) THEN a ELSE b

(* ------------------------------ data ---------------------------------- *)
StuA == <<"a", "@", "u">>
StuB == <<"b", "@", "u">>
StuGone == <<"x", "@", "u">>
NoText == <<>>
\* the null of a JSON body, where a session id is expected
NullId == <<"null">>
ProvLib == <<"p", "@", "u">>
\* appendProviderLog(providerEmail || "unknown", ...)
UnknownProvider == <<"u", "n", "k", "n", "o", "w", "n">>

Question == "q"

\* database/students/<email>.json: accessibleStores of each known student.
\* The store "fin" has no accountEmail.
StoreRef(name, account) == [storeName |-> name, accountEmail |-> account]
Students == (StuA :> <<StoreRef("lib", ProvLib), StoreRef("fin", NoText)>>) @@ (StuB :> <<>>)

\* readStudent that answers an unknown email with an empty student
readStudentLenient(email) ==
  [found |-> TRUE, accessibleStores |-> IF email \in DOMAIN Students THEN Students[email] ELSE <<>>]

\* readStudent(email): [found, accessibleStores]
readStudent(email) ==
  IF email \in DOMAIN Students
    THEN [found |-> TRUE, accessibleStores |-> Students[email]]
    ELSE [found |-> FALSE, accessibleStores |-> <<>>]

\* accessible.map(s => s.storeName)
StoreNames(accessible) == [i \in DOMAIN accessible |-> accessible[i].storeName]

\* accessible.find(x => x.storeName === store)?.accountEmail || null
AccountOf(accessible, store) ==
  LET hits == {i \in DOMAIN accessible : accessible[i].storeName = store}
  IN IF hits = {} THEN NoText
     ELSE accessible[CHOOSE i \in hits : \A j \in hits : i <= j].accountEmail

\* the values of the isCampusSearch query parameter
\* ("FALSE" stands for the boolean false)
FlagValues == {"absent", "false", "FALSE", "true", "0"}

\* shouldDoCampusSearch that takes a flag that is not given for false
shouldDoCampusSearchOptIn(flag) == flag = "true"

\* isCampusSearch !== "false" && isCampusSearch !== false
shouldDoCampusSearch(flag) == flag # "false" /\ flag # "FALSE"

(* --------------------------- classifier ------------------------------- *)
\* A parsed classification: the || [] and || {} of the handler (lines
\* 435-437) read a missing field as the empty one, so a missing field is
\* written as the empty one; isNull marks the JSON literal null.
Classification(st, sq, un) == [isNull |-> FALSE, stores |-> st, split_questions |-> sq, unanswered |-> un]
NullClassification == [isNull |-> TRUE, stores |-> <<>>, split_questions |-> <<>>, unanswered |-> <<>>]
Fragment == [text |-> "part", reason |-> "none"]

\* the objects the classification model is taken to answer with
ModelObjects ==
  { Classification(<<"lib", "fin">>, ("lib" :> "q-lib") @@ ("fin" :> "q-fin"), <<>>),
    Classification(<<"fin", "lib">>, <<>>, <<>>),
    Classification(<<"lib">>, ("lib" :> ""), <<Fragment>>),
    Classification(<<>>, <<>>, <<Fragment>>),
    Classification(<<"ghost", "fin", "lib">>, ("lib" :> "q-lib"), <<>>) }

\* The text of a model answer is a sequence of tokens: an opening brace, a
\* closing brace, the inside of an object (well formed or not), the literal
\* null, or other text.
TokOpen == [t |-> "{", ok |-> TRUE, v |-> NullClassification]
TokClose == [t |-> "}", ok |-> TRUE, v |-> NullClassification]
TokNull == [t |-> "null", ok |-> TRUE, v |-> NullClassification]
TokJunk == [t |-> "junk", ok |-> FALSE, v |-> NullClassification]
TokBadBody == [t |-> "body", ok |-> FALSE, v |-> NullClassification]
TokBody(c) == [t |-> "body", ok |-> TRUE, v |-> c]

\* JSON.parse(raw): [ok, value]
JSONparse(raw) ==
  IF Len(raw) = 1 /\ raw[1].t = "null"
    THEN [ok |-> TRUE, value |-> NullClassification]
  ELSE IF Len(raw) = 3 /\ raw[1].t = "{" /\ raw[2].t = "body" /\ raw[2].ok /\ raw[3].t = "}"
    THEN [ok |-> TRUE, value |-> raw[2].v]
  ELSE IF Len(raw) = 2 /\ raw[1].t = "{" /\ raw[2].t = "}"
    THEN [ok |-> TRUE, value |-> Classification(<<>>, <<>>, <<>>)]
  ELSE [ok |-> FALSE, value |-> NullClassification]

\* raw.indexOf("{") and raw.lastIndexOf("}"), 0 for the -1 of the code
indexOfOpen(raw) ==
  LET hits == {i \in DOMAIN raw : raw[i].t = "{"}
  IN IF hits = {} THEN 0 ELSE CHOOSE i \in hits : \A j \in hits : i <= j
lastIndexOfClose(raw) ==
  LET hits == {i \in DOMAIN raw : raw[i].t = "}"}
  IN IF hits = {} THEN 0 ELSE CHOOSE i \in hits : \A j \in hits : i >= j

\* what model.generateContent does in classifyStores: it throws, or it
\* answers with a text
ModelTexts ==
  { <<>>, <<TokNull>>, <<TokJunk>>, <<TokOpen, TokClose>>,
    <<TokOpen, TokBadBody, TokClose>>, <<TokClose, TokJunk, TokOpen>>,
    <<TokJunk, TokOpen, TokBadBody, TokClose>> }
  \cup { <<TokOpen, TokBody(c), TokClose>> : c \in ModelObjects }
  \cup { <<TokJunk, TokOpen, TokBody(c), TokClose, TokJunk>> : c \in ModelObjects }
ModelOutputs == { [threw |-> TRUE, txt |-> <<>>] } \cup { [threw |-> FALSE, txt |-> x] : x \in ModelTexts }

AllStoresFallback(stores) == Classification(stores, <<>>, <<>>)
Returned(v) == [threw |-> FALSE, called |-> TRUE, value |-> v]

\* classifyStores whose try has no catch
classifyStoresUncaught(geminiKey, stores, out) ==
  IF ~Truthy(geminiKey)
    THEN [threw |-> FALSE, called |-> FALSE, value |-> AllStoresFallback(stores)]
  ELSE IF out.threw
    THEN [threw |-> TRUE, called |-> TRUE, value |-> NullClassification]
  ELSE IF Len(out.txt) = 0
    THEN Returned(Classification(<<>>, <<>>, <<>>))
  ELSE IF JSONparse(out.txt).ok
    THEN Returned(JSONparse(out.txt).value)
  ELSE LET start == indexOfOpen(out.txt)
           end == lastIndexOfClose(out.txt)
           cut == SubSeq(out.txt, start, end)
       IN IF start # 0 /\ end # 0 /\ JSONparse(cut).ok
            THEN Returned(JSONparse(cut).value)
            ELSE Returned(AllStoresFallback(stores))

\* classifyStores without the test of the key
classifyStoresNoKeyCheck(geminiKey, stores, out) ==
  IF out.threw
    THEN Returned(AllStoresFallback(stores))
  ELSE IF Len(out.txt) = 0
    THEN Returned(Classification(<<>>, <<>>, <<>>))
  ELSE IF JSONparse(out.txt).ok
    THEN Returned(JSONparse(out.txt).value)
  ELSE LET start == indexOfOpen(out.txt)
           end == lastIndexOfClose(out.txt)
           cut == SubSeq(out.txt, start, end)
       IN IF start # 0 /\ end # 0 /\ JSONparse(cut).ok
            THEN Returned(JSONparse(cut).value)
            ELSE Returned(AllStoresFallback(stores))

\* classifyStores that does not retry on the text between the braces
classifyStoresNoRetry(geminiKey, stores, out) ==
  IF ~Truthy(geminiKey)
    THEN [threw |-> FALSE, called |-> FALSE, value |-> AllStoresFallback(stores)]
  ELSE IF out.threw
    THEN Returned(AllStoresFallback(stores))
  ELSE IF Len(out.txt) = 0
    THEN Returned(Classification(<<>>, <<>>, <<>>))
  ELSE IF JSONparse(out.txt).ok
    THEN Returned(JSONparse(out.txt).value)
  ELSE Returned(AllStoresFallback(stores))

\* classifyStores that takes an empty text for a text that does not parse
classifyStoresEmptyFallback(geminiKey, stores, out) ==
  IF ~Truthy(geminiKey)
    THEN [threw |-> FALSE, called |-> FALSE, value |-> AllStoresFallback(stores)]
  ELSE IF out.threw
    THEN Returned(AllStoresFallback(stores))
  ELSE IF JSONparse(out.txt).ok
    THEN Returned(JSONparse(out.txt).value)
  ELSE LET start == indexOfOpen(out.txt)
           end == lastIndexOfClose(out.txt)
           cut == SubSeq(out.txt, start, end)
       IN IF start # 0 /\ end # 0 /\ JSONparse(cut).ok
            THEN Returned(JSONparse(cut).value)
            ELSE Returned(AllStoresFallback(stores))

\* classifyStores(geminiKey, stores, question), given what the model call
\* does: [threw, called, value].  called tells whether the model was called.
classifyStores(geminiKey, stores, out) ==
  IF ~Truthy(geminiKey)
    THEN [threw |-> FALSE, called |-> FALSE, value |-> AllStoresFallback(stores)]
  ELSE IF out.threw
    THEN Returned(AllStoresFallback(stores))
  ELSE IF Len(out.txt) = 0
    THEN Returned(Classification(<<>>, <<>>, <<>>))
  ELSE IF JSONparse(out.txt).ok
    THEN Returned(JSONparse(out.txt).value)
  ELSE LET start == indexOfOpen(out.txt)
           end == lastIndexOfClose(out.txt)
           cut == SubSeq(out.txt, start, end)
       IN IF start # 0 /\ end # 0 /\ JSONparse(cut).ok
            THEN Returned(JSONparse(cut).value)
            ELSE Returned(AllStoresFallback(stores))

(* ------------------------- knowledge stores --------------------------- *)
\* What RAGService.askQuestion(geminiKey, [store], q) does: it throws, it
\* returns null, a result without success, a result without data, or a result
\* with data.  The data of a store are fixed: "lib" has six evidence chunks,
\* "fin" six of which one carries no text, any other store none.
RagKinds == {"ok", "null", "nosuccess", "nodata", "throw"}
RagErrorMessage == "timeout"
ResponseText(store) == IF store = "lib" THEN "L" ELSE IF store = "fin" THEN "F" ELSE ""
GroundingChunks(store) ==
  IF store = "lib" THEN [i \in 1..6 |-> [text |-> "lib" \o ToString(i)]]
  ELSE IF store = "fin" THEN [i \in 1..6 |-> [text |-> IF i = 2 THEN "" ELSE "fin" \o ToString(i)]]
  ELSE <<>>

\* CleanFailure without the test of ragResp.data
CleanFailureIgnoresData(kind) == kind \in {"null", "nosuccess"}

\* !ragResp || !ragResp.success || !ragResp.data
CleanFailure(kind) == kind \in {"null", "nosuccess", "nodata"}

\* for (const chunk of groundingChunks) if (ctx.text) allGrounding.push(ctx.text)
RECURSIVE ChunkTexts(_)
ChunkTexts(chunks) ==
  IF chunks = <<>> THEN <<>>
  ELSE (IF Truthy(Head(chunks).text) THEN <<Head(chunks).text>> ELSE <<>>) \o ChunkTexts(Tail(chunks))

\* the entry pushed on ragResults after a call that returned data, and after
\* a call that threw
RagSuccess(store) == [store |-> store, answerText |-> ResponseText(store), groundingChunks |-> GroundingChunks(store)]
RagThrown(store) == [store |-> store, answerText |-> "Error processing " \o store \o ": " \o RagErrorMessage, groundingChunks |-> <<>>]

\* qForStore that always asks the question of the request
qForStoreUnsplit(splitQuestions, store, question) == question

\* splitQuestions[store] || question
qForStore(splitQuestions, store, question) ==
  IF store \in DOMAIN splitQuestions /\ Truthy(splitQuestions[store]) THEN splitQuestions[store] ELSE question

(* ------------------------------ merge --------------------------------- *)
\* `**${r.store}**:\n${r.answerText}`
Section(r) == "**" \o r.store \o "**:\n" \o r.answerText

\* ragResults.map(...).join("\n\n")
RECURSIVE JoinSections(_)
JoinSections(rs) ==
  IF rs = <<>> THEN ""
  ELSE IF Len(rs) = 1 THEN Section(rs[1])
  ELSE Section(rs[1]) \o "\n\n" \o JoinSections(Tail(rs))

\* MergeResults that labels a single result too
MergeResultsAlwaysLabelled(ragResults) == JoinSections(ragResults)

\* 3) Merge results
MergeResults(ragResults) ==
  IF Len(ragResults) = 1 THEN ragResults[1].answerText ELSE JoinSections(ragResults)

\* SliceGrounding without the limit
SliceGroundingAll(g) == g

\* allGrounding.slice(0, 10)
SliceGrounding(g) == SubSeq(g, 1, IF Len(g) < GroundingLimit THEN Len(g) ELSE GroundingLimit)

(* ----------------------- direct-answer path --------------------------- *)
\* const modelsToTry = [...]
modelsToTry == <<"gemini-1.5-flash", "gemini-pro", "models/gemini-1.5-flash">>

\* the for loop over modelsToTry: the first candidate that initialises, ""
\* when none does; avail is the set of candidates getGenerativeModel accepts
FirstModel(avail) ==
  LET hits == {i \in DOMAIN modelsToTry : modelsToTry[i] \in avail}
  IN IF hits = {} THEN "" ELSE modelsToTry[CHOOSE i \in hits : \A j \in hits : i <= j]

\* The message of an error thrown by model.generateContent(question) is the
\* set of the words it contains that the handler looks for; defined is FALSE
\* for an error without message.
ErrorMessage(words) == [defined |-> TRUE, has |-> words]
NoErrorMessage == [defined |-> FALSE, has |-> {}]
\* (the errors of the model client are Error objects: they carry a message)
GeminiErrors ==
  { ErrorMessage({}), ErrorMessage({"API key"}), ErrorMessage({"auth", "quota"}),
    ErrorMessage({"quota"}), ErrorMessage({"exceeded", "network"}), ErrorMessage({"network"}),
    ErrorMessage({"connect", "model"}), ErrorMessage({"model"}),
    ErrorMessage({"API key", "exceeded", "connect", "model"}) }

\* geminiErr.message?.includes(word)
Includes(msg, word) == msg.defined /\ word \in msg.has

\* the chain with the test of the model name first
ErrorStatusModelFirst(msg) ==
  IF Includes(msg, "model") THEN 400
  ELSE IF Includes(msg, "API key") \/ Includes(msg, "auth") THEN 401
  ELSE IF Includes(msg, "quota") \/ Includes(msg, "exceeded") THEN 429
  ELSE IF Includes(msg, "network") \/ Includes(msg, "connect") THEN 503
  ELSE 500

\* the if / else if chain of the catch (geminiErr): errorMessage
ErrorText(msg) ==
  IF Includes(msg, "API key") \/ Includes(msg, "auth") THEN "Invalid or unauthorized API key"
  ELSE IF Includes(msg, "quota") \/ Includes(msg, "exceeded") THEN "API quota exceeded or rate limited"
  ELSE IF Includes(msg, "network") \/ Includes(msg, "connect") THEN "Network error connecting to Gemini API"
  ELSE IF Includes(msg, "model") THEN "Gemini model not available"
  ELSE "Failed to call Gemini API"

\* the if / else if chain of the catch (geminiErr): statusCode
ErrorStatus(msg) ==
  IF Includes(msg, "API key") \/ Includes(msg, "auth") THEN 401
  ELSE IF Includes(msg, "quota") \/ Includes(msg, "exceeded") THEN 429
  ELSE IF Includes(msg, "network") \/ Includes(msg, "connect") THEN 503
  ELSE IF Includes(msg, "model") THEN 400
  ELSE 500

(* ------------------------ responses, messages ------------------------- *)
\* a JSON body sent with res.json, with its status; shape names the place
\* that sent it, and a field the body of that place does not carry is empty
BaseResponse ==
  [status |-> 200, shape |-> "", sessionId |-> NullId, answer |-> "", storesUsed |-> <<>>,
   grounding |-> <<>>, totalGrounding |-> 0, unanswered |-> <<>>, failedStore |-> "",
   searchedIn |-> NoText, modelUsed |-> "", error |-> "", details |-> NoErrorMessage, suggestion |-> FALSE]

ErrorResponse(status, shape, error) == [BaseResponse EXCEPT !.status = status, !.shape = shape, !.error = error]

NoStoresAvailableAnswer == "No RAG stores available for your account."
NoDepartmentAnswer == "Sorry, none of the departments can answer this."
RagFailedAnswer == "Sorry we didn't find any information related to this."

\* messageObj of the four persistence tasks
BaseMessage ==
  [method |-> "campus_search", shape |-> "", question |-> "", answer |-> "", storesUsed |-> <<>>,
   grounding |-> <<>>, timestamp |-> 0, unresolvedParts |-> <<>>, searchedIn |-> NoText,
   ragError |-> FALSE, ragResultCount |-> 0, isCampusSearch |-> TRUE, model |-> ""]

\* a provider log document
BaseLogDoc ==
  [provider_email |-> NoText, user_email |-> NoText, store_name |-> "", question |-> "",
   hasResponse |-> FALSE, response |-> "", grounding_count |-> 0, asked_at |-> 0, error |-> ""]

\* r.answerText.substring(0, 500) + "..." (every text of the model is shorter
\* than 500 characters)
LoggedResponse(answerText) == answerText \o "..."

(* ------------------------------ state --------------------------------- *)
VARIABLES
  h,             \* the running handler: its position and its locals
  nreq,          \* number of requests received
  resp,          \* responses sent for the current request, in order
  calls,         \* model and knowledge-store calls of the current request
  evs,           \* response and file-system events of the current request
  bg,            \* the detached persistence task of each request
  sessionFiles,  \* database/chat_sessions
  providerFiles, \* database/provider_questions
  now,           \* the wall clock
  faults         \* file-system operations that failed so far

vars == <<h, nreq, resp, calls, evs, bg, sessionFiles, providerFiles, now, faults>>

Requests == 1..MaxRequests

\* what the classification model answered in classifyStores (result and txt,
\* lines 165-167), known until the first store is queried
NoModelOutput == [called |-> FALSE, threw |-> FALSE, txt |-> <<>>]
ModelOutput(c, out) ==
  IF c.called THEN [called |-> TRUE, threw |-> out.threw, txt |-> out.txt] ELSE NoModelOutput

IdleHandler ==
  [pc |-> "idle", email |-> NoText, question |-> "", sessionId |-> NoText, flag |-> "absent",
   accessible |-> <<>>, campus |-> FALSE, geminiKey |-> "", modelName |-> "", isNewSession |-> FALSE,
   currentSessionId |-> NoText, predictedStores |-> <<>>, splitQuestions |-> <<>>,
   unanswered |-> <<>>, idx |-> 0, ragResults |-> <<>>, allGrounding |-> <<>>, classified |-> FALSE,
   uniKey |-> "", envKey |-> "", modelOut |-> NoModelOutput]

NoSession == [sessionId |-> NoText, email |-> NoText, createdAt |-> 0, updatedAt |-> 0, messages |-> <<>>]

NoTask ==
  [pc |-> "none", email |-> NoText, sid |-> NoText, msg |-> BaseMessage, logs |-> <<>>, li |-> 0,
   session |-> NoSession, arr |-> <<>>]

Finished(task) == task.pc \in {"none", "done", "failed"}

Init ==
  /\ h = IdleHandler
  /\ nreq = 0
  /\ resp = <<>>
  /\ calls = <<>>
  /\ evs = <<>>
  /\ bg = [r \in Requests |-> NoTask]
  /\ sessionFiles = <<>>
  /\ providerFiles = <<>>
  /\ now = 0
  /\ faults = 0

\* an event: its name, whether it succeeded, and for a provider log operation
\* the position of the log entry (0 otherwise)
Event(e, ok, n) == [e |-> e, ok |-> ok, n |-> n]

\* res.status(...).json(body): the body is sent and the handler returns
Respond(body) ==
  /\ resp' = Append(resp, body)
  /\ evs' = Append(evs, Event("respond", TRUE, 0))

\* Reject that returns without sending the body
RejectUnsent(body) ==
  /\ UNCHANGED <<resp, evs, bg, sessionFiles>>

\* Reject that starts a persistence task for the body sent
RejectAndPersist(body) ==
  /\ Respond(body)
  /\ bg' = [bg EXCEPT ![nreq] = [NoTask EXCEPT !.pc = "apRead", !.email = h.email, !.sid = h.sessionId,
                                                !.msg.question = h.question, !.msg.answer = body.error]]
  /\ UNCHANGED sessionFiles

\* a response with no persistence after it
Reject(body) ==
  /\ Respond(body)
  /\ UNCHANGED <<bg, sessionFiles>>

\* the detached task (async () => { ... })() as it is started: it begins with
\* createSessionFile when the session is new, with the append otherwise
NewTask(isNewSession, email, sid, msg, logs) ==
  [pc |-> IF isNewSession THEN "create" ELSE "apRead", email |-> email, sid |-> sid,
   msg |-> [msg EXCEPT !.timestamp = now], logs |-> logs, li |-> 0, session |-> NoSession, arr |-> <<>>]

\* the session data createSessionFile writes (lines 79-86), and with the
\* message, the data the catch of appendMessageToSessionFile writes (64-71)
NewSessionData(email, sessionId, messages) ==
  [sessionId |-> sessionId, email |-> email, createdAt |-> now, updatedAt |-> now, messages |-> messages]

\* fs.writeFile(file, JSON.stringify(data)) on a directory
WriteFile(files, file, data) == [f \in DOMAIN files \cup {file} |-> IF f = file THEN data ELSE files[f]]

\* Answer with the session file of a new session created before the response
\* is sent
AnswerCreateFirst(body, task) ==
  IF task.pc = "create"
    THEN /\ resp' = Append(resp, body)
         /\ evs' = evs \o <<Event("createSessionFile", TRUE, 0), Event("respond", TRUE, 0)>>
         /\ sessionFiles' = WriteFile(sessionFiles, getSessionFile(task.email, task.sid),
                                      NewSessionData(task.email, task.sid, <<>>))
         /\ bg' = [bg EXCEPT ![nreq] = [task EXCEPT !.pc = "apRead"]]
    ELSE /\ Respond(body)
         /\ bg' = [bg EXCEPT ![nreq] = task]
         /\ UNCHANGED sessionFiles

\* Answer that starts no persistence task
AnswerNoTask(body, task) ==
  /\ Respond(body)
  /\ UNCHANGED <<bg, sessionFiles>>

\* res.json(body) followed by the start of the detached persistence task
Answer(body, task) ==
  /\ Respond(body)
  /\ bg' = [bg EXCEPT ![nreq] = task]
  /\ UNCHANGED sessionFiles

\* "session_" + Date.now() + "_" + Math.random().toString(36).slice(2, 8)
\* (one suffix is enough to mint both a fresh id and one minted before: the
\* clock may or may not advance between two requests)
RandomSuffixes == {"x"}
MintedIds == { <<"m", ToString(now), c>> : c \in RandomSuffixes }

\* let currentSessionId = sessionId; if (!currentSessionId) { isNewSession = true; ... }
SessionChoices(sessionId) ==
  IF Truthy(sessionId) THEN { [isNewSession |-> FALSE, currentSessionId |-> sessionId] }
  ELSE { [isNewSession |-> TRUE, currentSessionId |-> id] : id \in MintedIds }

\* the values a request carries
Emails == {NoText, StuA, StuB, StuGone}
Questions == {"", Question}
\* a caller gives no session id, one of its own, or one an earlier response
\* of the service returned
KnownSessionId == <<"s", "1">>
SessionIds == {NoText, KnownSessionId} \cup { sessionFiles[f].sessionId : f \in DOMAIN sessionFiles }

\* university?.apiKeyInfo?.key and process.env.GEMINI_API_KEY, each present
\* or not
UniversityKeys == {"", "K-uni"}
EnvKeys == {"", "K-env"}

\* ResolveKey with the environment key first
ResolveKeyEnvFirst(uniKey, envKey) == OrElse(envKey, uniKey)

\* let geminiKey = university?.apiKeyInfo?.key || null;
\* if (!geminiKey && process.env.GEMINI_API_KEY) geminiKey = process.env.GEMINI_API_KEY
ResolveKey(uniKey, envKey) == OrElse(uniKey, envKey)

(* --------------------------- GET /ask --------------------------------- *)
\* lines 206-217: a request arrives; email and question are checked
Receive ==
  /\ h.pc \in {"idle", "done"}
  /\ nreq < MaxRequests
  /\ \A r \in Requests : Finished(bg[r])
  /\ \E email \in Emails, question \in Questions, sessionId \in SessionIds, flag \in FlagValues :
       /\ nreq' = nreq + 1
       /\ calls' = <<>>
       /\ IF ~Truthy(email) \/ ~Truthy(question)
            THEN /\ h' = [IdleHandler EXCEPT !.pc = "done", !.email = email, !.question = question,
                                             !.sessionId = sessionId, !.flag = flag]
                 /\ resp' = <<ErrorResponse(400, "missing", "email & question required")>>
                 /\ evs' = <<Event("respond", TRUE, 0)>>
            ELSE /\ h' = [IdleHandler EXCEPT !.pc = "readStudent", !.email = email, !.question = question,
                                             !.sessionId = sessionId, !.flag = flag]
                 /\ resp' = <<>>
                 /\ evs' = <<>>
  /\ UNCHANGED <<bg, sessionFiles, providerFiles, now, faults>>

\* the test of line 395 left out
NoStoresAvailableNever(storeNames) == FALSE

\* if (storeNames.length === 0), line 395
NoStoresAvailable(storeNames) == Len(storeNames) = 0

\* lines 224-242 and 392-404: the student is read, the mode is chosen, and
\* in campus mode a student without stores is answered at once.  The flag is
\* not read after line 238: the handler forgets it at its next step ("read").
ReadStudent ==
  /\ h.pc = "readStudent"
  /\ LET student == readStudent(h.email)
         accessible == student.accessibleStores
     IN IF ~student.found
          THEN /\ Reject(ErrorResponse(404, "notFound", "Student not found"))
               /\ h' = [h EXCEPT !.pc = "done", !.flag = "read"]
        ELSE IF ~shouldDoCampusSearch(h.flag)
          THEN /\ h' = [h EXCEPT !.pc = "directKey", !.accessible = accessible]
               /\ UNCHANGED <<resp, evs, bg, sessionFiles>>
        ELSE IF NoStoresAvailable(StoreNames(accessible))
          THEN /\ Reject([BaseResponse EXCEPT !.shape = "noStoresAvailable", !.sessionId = NullId,
                                              !.answer = NoStoresAvailableAnswer])
               /\ h' = [h EXCEPT !.pc = "done", !.accessible = accessible, !.campus = TRUE]
        ELSE /\ h' = [h EXCEPT !.pc = "campusKey", !.accessible = accessible, !.campus = TRUE]
             /\ UNCHANGED <<resp, evs, bg, sessionFiles>>
  /\ UNCHANGED <<nreq, calls, providerFiles, now, faults>>

\* lines 245-299: direct mode reads the university, resolves the key and
\* picks the first model that initialises
DirectResolveKey ==
  /\ h.pc = "directKey"
  /\ \E uniKey \in UniversityKeys, envKey \in EnvKeys, avail \in SUBSET {modelsToTry[i] : i \in DOMAIN modelsToTry} :
       LET geminiKey == ResolveKey(uniKey, envKey)
           modelName == FirstModel(avail)
           read == [h EXCEPT !.flag = "read", !.uniKey = uniKey, !.envKey = envKey, !.geminiKey = geminiKey]
       IN IF ~Truthy(geminiKey)
            THEN /\ Reject(ErrorResponse(400, "noKey", "No API key available for Gemini call"))
                 /\ h' = [read EXCEPT !.pc = "done"]
          ELSE IF ~Truthy(modelName)
            THEN /\ Reject(ErrorResponse(400, "noModel", "No compatible Gemini model found"))
                 /\ h' = [read EXCEPT !.pc = "done"]
          ELSE /\ h' = [read EXCEPT !.pc = "directCall", !.modelName = modelName]
               /\ UNCHANGED <<resp, evs, bg, sessionFiles>>
  /\ UNCHANGED <<nreq, calls, providerFiles, now, faults>>

\* a call of a model or of a knowledge store: the question sent and how the
\* call ended ("pending" while it is in flight)
Call(svc, store, q, result) == [svc |-> svc, store |-> store, q |-> q, result |-> result]

\* what model.generateContent(question) answers in direct mode
DirectTexts == {"", "D"}

\* lines 301-389: the model is called; on success the answer is sent and the
\* turn persisted in the background, on error the mapped status is sent
DirectCall ==
  /\ h.pc = "directCall"
  /\ \/ \E text \in DirectTexts, s \in SessionChoices(h.sessionId) :
          LET answerText == OrElse(text, "No response from Gemini")
              body == [BaseResponse EXCEPT !.shape = "direct", !.sessionId = s.currentSessionId,
                                           !.answer = answerText, !.modelUsed = h.modelName]
              msg == [BaseMessage EXCEPT !.method = "direct_gemini", !.shape = "direct",
                                         !.question = h.question, !.answer = answerText,
                                         !.isCampusSearch = FALSE, !.model = h.modelName]
          IN /\ calls' = Append(calls, Call("gemini", "", h.question, "ok"))
             /\ Answer(body, NewTask(s.isNewSession, h.email, s.currentSessionId, msg, <<>>))
             /\ h' = [h EXCEPT !.pc = "done", !.isNewSession = s.isNewSession,
                               !.currentSessionId = s.currentSessionId]
     \/ \E err \in GeminiErrors :
          /\ calls' = Append(calls, Call("gemini", "", h.question, "throw"))
          /\ Reject([ErrorResponse(ErrorStatus(err), "geminiError", ErrorText(err)) EXCEPT
                       !.details = err, !.suggestion = TRUE])
          /\ h' = [h EXCEPT !.pc = "done"]
  /\ UNCHANGED <<nreq, providerFiles, now, faults>>

\* lines 406-430: campus mode reads the university, resolves the key (a
\* missing key is no error here) and the session id
CampusResolveKey ==
  /\ h.pc = "campusKey"
  /\ \E uniKey \in UniversityKeys, envKey \in EnvKeys, s \in SessionChoices(h.sessionId) :
       h' = [h EXCEPT !.pc = "classify", !.flag = "read", !.uniKey = uniKey, !.envKey = envKey,
                      !.geminiKey = ResolveKey(uniKey, envKey),
                      !.isNewSession = s.isNewSession, !.currentSessionId = s.currentSessionId]
  /\ UNCHANGED <<nreq, resp, calls, evs, bg, sessionFiles, providerFiles, now, faults>>

\* the message and the provider log documents of the campus tasks

\* NoDepartmentMessage without the unresolved parts
NoDepartmentMessageNoParts(question, unanswered) ==
  [BaseMessage EXCEPT !.shape = "noDepartment", !.question = question, !.answer = NoDepartmentAnswer]

\* messageObj of lines 465-475
NoDepartmentMessage(question, unanswered) ==
  [BaseMessage EXCEPT !.shape = "noDepartment", !.question = question, !.answer = NoDepartmentAnswer,
                      !.unresolvedParts = unanswered]
\* RagFailedMessage that keeps the stores queried and the evidence gathered
\* before the failure
RagFailedMessageKeepsEarlier(question, store, account) ==
  [BaseMessage EXCEPT !.shape = "ragFailed", !.question = question, !.answer = RagFailedAnswer,
                      !.storesUsed = SubSeq(h.predictedStores, 1, h.idx),
                      !.grounding = h.allGrounding,
                      !.searchedIn = account, !.ragError = TRUE]

RagFailedMessage(question, store, account) ==
  [BaseMessage EXCEPT !.shape = "ragFailed", !.question = question, !.answer = RagFailedAnswer,
                      !.storesUsed = <<store>>, !.searchedIn = account, !.ragError = TRUE]
CampusMessage(question, finalAnswer, predictedStores, allGrounding, ragResults) ==
  [BaseMessage EXCEPT !.shape = "campus", !.question = question, !.answer = finalAnswer,
                      !.storesUsed = predictedStores, !.grounding = allGrounding,
                      !.ragResultCount = Len(ragResults)]

\* the task of a clean failure without its provider log entry
RagFailedLogsNone(email, store, account, q) == <<>>

\* lines 535-546: the log entry of a clean failure, none when the store has
\* no owning account
RagFailedLogs(email, store, account, q) ==
  IF Truthy(account)
    THEN << [provider |-> account,
             doc |-> [BaseLogDoc EXCEPT !.provider_email = account, !.user_email = email,
                                        !.store_name = store, !.question = q,
                                        !.error = "RAG call failed"]] >>
    ELSE <<>>

\* CampusLogs that leaves out the stores without an owning account
CampusLogsKnownOnly(email, accessible, splitQuestions, question, ragResults) ==
  LET known == SelectSeq(ragResults, LAMBDA r : Truthy(AccountOf(accessible, r.store)))
  IN [i \in DOMAIN known |->
        LET r == known[i]
            providerEmail == AccountOf(accessible, r.store)
        IN [provider |-> OrElse(providerEmail, UnknownProvider),
            doc |-> [BaseLogDoc EXCEPT !.provider_email = providerEmail, !.user_email = email,
                                       !.store_name = r.store,
                                       !.question = qForStore(splitQuestions, r.store, question),
                                       !.hasResponse = TRUE, !.response = LoggedResponse(r.answerText),
                                       !.grounding_count = Len(r.groundingChunks)]]]

\* lines 629-645: one log entry per element of ragResults
CampusLogs(email, accessible, splitQuestions, question, ragResults) ==
  [i \in DOMAIN ragResults |->
     LET r == ragResults[i]
         providerEmail == AccountOf(accessible, r.store)
     IN [provider |-> OrElse(providerEmail, UnknownProvider),
         doc |-> [BaseLogDoc EXCEPT !.provider_email = providerEmail, !.user_email = email,
                                    !.store_name = r.store,
                                    !.question = qForStore(splitQuestions, r.store, question),
                                    !.hasResponse = TRUE, !.response = LoggedResponse(r.answerText),
                                    !.grounding_count = Len(r.groundingChunks)]]]

\* err.message in the catch of the handler: of an error classifyStores let
\* through, and of the TypeError of classification.stores on null
ClassifierError == ErrorMessage({"classifier"})
TypeError == ErrorMessage({"TypeError"})

\* lines 432-484: the stores are classified; a classification without stores
\* is answered at once.  Reading a field of a null classification, or a throw
\* of classifyStores, reaches the catch of the handler (lines 652-666).
CampusClassify ==
  /\ h.pc = "classify"
  /\ \E out \in ModelOutputs :
       LET c == classifyStores(h.geminiKey, StoreNames(h.accessible), out)
           classification == c.value
           predictedStores == classification.stores
           splitQuestions == classification.split_questions
           unanswered == classification.unanswered
       IN /\ calls' = IF c.called
                        THEN Append(calls, Call("classifier", "", h.question,
                                                IF out.threw THEN "throw" ELSE "text"))
                        ELSE calls
          /\ IF c.threw
               THEN /\ Reject([ErrorResponse(500, "internal", "Internal Server Error") EXCEPT
                                 !.details = ClassifierError])
                    /\ h' = [h EXCEPT !.pc = "done", !.modelOut = ModelOutput(c, out)]
             ELSE IF classification.isNull
               THEN /\ Reject([ErrorResponse(500, "internal", "Internal Server Error") EXCEPT
                                 !.details = TypeError])
                    /\ h' = [h EXCEPT !.pc = "done", !.modelOut = ModelOutput(c, out)]
             ELSE IF Len(predictedStores) = 0
               THEN /\ Answer([BaseResponse EXCEPT !.shape = "noDepartment",
                                                   !.sessionId = h.currentSessionId,
                                                   !.answer = NoDepartmentAnswer,
                                                   !.unanswered = unanswered],
                              NewTask(h.isNewSession, h.email, h.currentSessionId,
                                      NoDepartmentMessage(h.question, unanswered), <<>>))
                    /\ h' = [h EXCEPT !.pc = "done", !.unanswered = unanswered, !.classified = TRUE,
                                       !.modelOut = ModelOutput(c, out)]
             ELSE /\ h' = [h EXCEPT !.pc = "ragCall", !.predictedStores = predictedStores,
                                    !.splitQuestions = splitQuestions, !.unanswered = unanswered,
                                    !.idx = 1, !.classified = TRUE, !.modelOut = ModelOutput(c, out)]
                  /\ UNCHANGED <<resp, evs, bg, sessionFiles>>
  /\ UNCHANGED <<nreq, providerFiles, now, faults>>

\* RagIssue that starts the calls of all the stores left at once
RagIssueAll ==
  /\ h.pc = "ragCall"
  /\ calls' = calls \o [k \in 1..(Len(h.predictedStores) - h.idx + 1) |->
                         LET store == h.predictedStores[h.idx + k - 1]
                         IN Call("rag", store, qForStore(h.splitQuestions, store, h.question), "pending")]
  /\ h' = [h EXCEPT !.pc = "ragWait", !.modelOut = NoModelOutput]
  /\ UNCHANGED <<nreq, resp, evs, bg, sessionFiles, providerFiles, now, faults>>

\* lines 491-497: the next store of predictedStores is queried
RagIssue ==
  /\ h.pc = "ragCall"
  /\ LET store == h.predictedStores[h.idx]
     IN calls' = Append(calls, Call("rag", store, qForStore(h.splitQuestions, store, h.question),
                                    "pending"))
  /\ h' = [h EXCEPT !.pc = "ragWait", !.modelOut = NoModelOutput]
  /\ UNCHANGED <<nreq, resp, evs, bg, sessionFiles, providerFiles, now, faults>>

\* AfterRag without the push of the catch (ragErr)
AfterRagDropsThrown(ragResults, allGrounding, store, kind) ==
  IF kind = "throw"
    THEN [ragResults |-> ragResults, allGrounding |-> allGrounding]
    ELSE [ragResults |-> Append(ragResults, RagSuccess(store)),
          allGrounding |-> allGrounding \o ChunkTexts(GroundingChunks(store))]

\* the state of the loop after the call for store returned kind: ragResults
\* and allGrounding (lines 555-577)
AfterRag(ragResults, allGrounding, store, kind) ==
  IF kind = "throw"
    THEN [ragResults |-> Append(ragResults, RagThrown(store)), allGrounding |-> allGrounding]
    ELSE [ragResults |-> Append(ragResults, RagSuccess(store)),
          allGrounding |-> allGrounding \o ChunkTexts(GroundingChunks(store))]

\* whether the loop goes on after the store at position idx: for (const
\* store of predictedStores)
MoreStores(predictedStores, idx) == idx < Len(predictedStores)

\* lines 499-603: the call returns.  A clean failure answers at once and ends
\* the request; otherwise the result is kept and the loop goes on, and after
\* the last store the results are merged and the answer is sent.
RagReturn ==
  /\ h.pc = "ragWait"
  /\ \E kind \in RagKinds :
       LET store == h.predictedStores[h.idx]
           q == qForStore(h.splitQuestions, store, h.question)
           account == AccountOf(h.accessible, store)
           after == AfterRag(h.ragResults, h.allGrounding, store, kind)
           finalAnswer == MergeResults(after.ragResults)
       IN /\ calls' = [calls EXCEPT ![Len(calls)].result = kind]
          /\ IF CleanFailure(kind)
               THEN /\ Answer([BaseResponse EXCEPT !.shape = "ragFailed", !.sessionId = h.currentSessionId,
                                                   !.answer = RagFailedAnswer, !.searchedIn = account,
                                                   !.failedStore = store],
                              NewTask(h.isNewSession, h.email, h.currentSessionId,
                                      RagFailedMessage(h.question, store, account),
                                      RagFailedLogs(h.email, store, account, q)))
                    /\ h' = [h EXCEPT !.pc = "done"]
             ELSE IF MoreStores(h.predictedStores, h.idx)
               THEN /\ h' = [h EXCEPT !.pc = "ragCall", !.idx = h.idx + 1,
                                      !.ragResults = after.ragResults, !.allGrounding = after.allGrounding]
                    /\ UNCHANGED <<resp, evs, bg, sessionFiles>>
             ELSE /\ Answer([BaseResponse EXCEPT !.shape = "campus", !.sessionId = h.currentSessionId,
                                                 !.answer = finalAnswer, !.storesUsed = h.predictedStores,
                                                 !.grounding = SliceGrounding(after.allGrounding),
                                                 !.totalGrounding = Len(after.allGrounding)],
                            NewTask(h.isNewSession, h.email, h.currentSessionId,
                                    CampusMessage(h.question, finalAnswer, h.predictedStores,
                                                  after.allGrounding, after.ragResults),
                                    CampusLogs(h.email, h.accessible, h.splitQuestions, h.question,
                                               after.ragResults)))
                  /\ h' = [h EXCEPT !.pc = "done", !.ragResults = after.ragResults,
                                    !.allGrounding = after.allGrounding]
  /\ UNCHANGED <<nreq, providerFiles, now, faults>>

(* ---------------------- detached persistence -------------------------- *)
\* the events of a task are recorded while its request is the current one
Log(r, events) == evs' = IF r = nreq THEN evs \o events ELSE evs

\* a file-system operation fails
Fault == faults < MaxFaults /\ faults' = faults + 1
NoFault == faults' = faults

\* a task that ended; "failed" after the catch of the task logged an error
Ended(pc) == [NoTask EXCEPT !.pc = pc]

\* the step after the session append: the provider logs, if any
AfterAppend(task) ==
  IF Len(task.logs) > 0 THEN [task EXCEPT !.pc = "plRead", !.li = 1, !.session = NoSession]
  ELSE Ended("done")

\* lines 336-339 (and 461-463, 516-518, 608-611): the task of a new session
\* creates the session file; a failure ends the task in its catch
BgCreateSession(r) ==
  /\ bg[r].pc = "create"
  /\ LET task == bg[r]
         file == getSessionFile(task.email, task.sid)
     IN \/ /\ NoFault
           /\ sessionFiles' = WriteFile(sessionFiles, file, NewSessionData(task.email, task.sid, <<>>))
           /\ bg' = [bg EXCEPT ![r] = [task EXCEPT !.pc = "apRead", !.msg.timestamp = now]]
           /\ Log(r, <<Event("createSessionFile", TRUE, 0)>>)
        \/ /\ Fault
           /\ bg' = [bg EXCEPT ![r] = Ended("failed")]
           /\ Log(r, <<Event("createSessionFile", FALSE, 0), Event("logged", TRUE, 0)>>)
           /\ UNCHANGED sessionFiles
  /\ UNCHANGED <<h, nreq, resp, calls, providerFiles, now>>

\* appendMessageToSessionFile, line 57: the session file is read; a missing
\* file and a failed read both reach the catch of line 62
BgAppendRead(r) ==
  /\ bg[r].pc = "apRead"
  /\ LET task == bg[r]
         file == getSessionFile(task.email, task.sid)
     IN \/ /\ file \in DOMAIN sessionFiles
           /\ NoFault
           /\ bg' = [bg EXCEPT ![r] = [task EXCEPT !.pc = "apWrite", !.session = sessionFiles[file]]]
           /\ Log(r, <<Event("appendMessage.read", TRUE, 0)>>)
        \/ /\ file \notin DOMAIN sessionFiles
           /\ NoFault
           /\ bg' = [bg EXCEPT ![r] = [task EXCEPT !.pc = "apRewrite"]]
           /\ Log(r, <<Event("appendMessage.read", FALSE, 0)>>)
        \/ /\ file \in DOMAIN sessionFiles
           /\ Fault
           /\ bg' = [bg EXCEPT ![r] = [task EXCEPT !.pc = "apRewrite"]]
           /\ Log(r, <<Event("appendMessage.read", FALSE, 0)>>)
  /\ UNCHANGED <<h, nreq, resp, calls, sessionFiles, providerFiles, now>>

\* lines 58-60: session.messages.push(messageObj); session.updatedAt = now
Pushed(session, messageObj) ==
  [session EXCEPT !.messages = Append(session.messages, messageObj), !.updatedAt = now]

\* line 61: the session read is written back with the message appended; a
\* failed write reaches the catch of line 62
BgAppendWrite(r) ==
  /\ bg[r].pc = "apWrite"
  /\ LET task == bg[r]
         file == getSessionFile(task.email, task.sid)
     IN \/ /\ NoFault
           /\ sessionFiles' = WriteFile(sessionFiles, file, Pushed(task.session, task.msg))
           /\ bg' = [bg EXCEPT ![r] = AfterAppend(task)]
           /\ Log(r, <<Event("appendMessage.write", TRUE, 0)>>)
        \/ /\ Fault
           /\ bg' = [bg EXCEPT ![r] = [task EXCEPT !.pc = "apRewrite", !.session = NoSession]]
           /\ Log(r, <<Event("appendMessage.write", FALSE, 0)>>)
           /\ UNCHANGED sessionFiles
  /\ UNCHANGED <<h, nreq, resp, calls, providerFiles, now>>

\* BgAppendRewrite whose failure is answered with a status 500
BgAppendRewriteSurfacing(r) ==
  /\ bg[r].pc = "apRewrite"
  /\ LET task == bg[r]
         file == getSessionFile(task.email, task.sid)
     IN \/ /\ NoFault
           /\ sessionFiles' = WriteFile(sessionFiles, file, NewSessionData(task.email, task.sid, <<task.msg>>))
           /\ bg' = [bg EXCEPT ![r] = AfterAppend(task)]
           /\ Log(r, <<Event("appendMessage.rewrite", TRUE, 0)>>)
           /\ UNCHANGED resp
        \/ /\ Fault
           /\ bg' = [bg EXCEPT ![r] = Ended("failed")]
           /\ Log(r, <<Event("appendMessage.rewrite", FALSE, 0), Event("logged", TRUE, 0)>>)
           /\ resp' = Append(resp, ErrorResponse(500, "internal", "Internal Server Error"))
           /\ UNCHANGED sessionFiles
  /\ UNCHANGED <<h, nreq, calls, providerFiles, now>>

\* lines 62-73: the catch writes a session that holds the one message; a
\* failure of this write leaves appendMessageToSessionFile and ends the task
\* in its catch
BgAppendRewrite(r) ==
  /\ bg[r].pc = "apRewrite"
  /\ LET task == bg[r]
         file == getSessionFile(task.email, task.sid)
     IN \/ /\ NoFault
           /\ sessionFiles' = WriteFile(sessionFiles, file, NewSessionData(task.email, task.sid, <<task.msg>>))
           /\ bg' = [bg EXCEPT ![r] = AfterAppend(task)]
           /\ Log(r, <<Event("appendMessage.rewrite", TRUE, 0)>>)
        \/ /\ Fault
           /\ bg' = [bg EXCEPT ![r] = Ended("failed")]
           /\ Log(r, <<Event("appendMessage.rewrite", FALSE, 0), Event("logged", TRUE, 0)>>)
           /\ UNCHANGED sessionFiles
  /\ UNCHANGED <<h, nreq, resp, calls, providerFiles, now>>

\* appendProviderLog, lines 95-101: the log of the provider is read; a
\* missing file and a failed read both give the empty list
BgProviderLogRead(r) ==
  /\ bg[r].pc = "plRead"
  /\ LET task == bg[r]
         file == getProviderFile(task.logs[task.li].provider)
     IN \/ /\ file \in DOMAIN providerFiles
           /\ NoFault
           /\ bg' = [bg EXCEPT ![r] = [task EXCEPT !.pc = "plWrite", !.arr = providerFiles[file]]]
           /\ Log(r, <<Event("providerLog.read", TRUE, task.li)>>)
        \/ /\ file \notin DOMAIN providerFiles
           /\ NoFault
           /\ bg' = [bg EXCEPT ![r] = [task EXCEPT !.pc = "plWrite", !.arr = <<>>]]
           /\ Log(r, <<Event("providerLog.read", FALSE, task.li)>>)
        \/ /\ file \in DOMAIN providerFiles
           /\ Fault
           /\ bg' = [bg EXCEPT ![r] = [task EXCEPT !.pc = "plWrite", !.arr = <<>>]]
           /\ Log(r, <<Event("providerLog.read", FALSE, task.li)>>)
  /\ UNCHANGED <<h, nreq, resp, calls, sessionFiles, providerFiles, now>>

\* the task after the log entry at position li: the next entry, or the end
AfterLog(task) ==
  IF task.li < Len(task.logs) THEN [task EXCEPT !.pc = "plRead", !.li = task.li + 1, !.arr = <<>>]
  ELSE Ended("done")

\* lines 102-106: the entry is pushed and the log written; a failed write is
\* logged inside appendProviderLog and the task goes on
BgProviderLogWrite(r) ==
  /\ bg[r].pc = "plWrite"
  /\ LET task == bg[r]
         entry == task.logs[task.li]
         file == getProviderFile(entry.provider)
         logDoc == [entry.doc EXCEPT !.asked_at = now]
     IN \/ /\ NoFault
           /\ providerFiles' = WriteFile(providerFiles, file, Append(task.arr, logDoc))
           /\ bg' = [bg EXCEPT ![r] = AfterLog(task)]
           /\ Log(r, <<Event("providerLog.write", TRUE, task.li)>>)
        \/ /\ Fault
           /\ bg' = [bg EXCEPT ![r] = AfterLog(task)]
           /\ Log(r, <<Event("providerLog.write", FALSE, task.li), Event("logged", TRUE, 0)>>)
           /\ UNCHANGED providerFiles
  /\ UNCHANGED <<h, nreq, resp, calls, sessionFiles, now>>

\* time passes between two requests
Tick ==
  /\ now < MaxClock
  /\ h.pc \in {"idle", "done"}
  /\ \A r \in Requests : Finished(bg[r])
  /\ now' = now + 1
  /\ UNCHANGED <<h, nreq, resp, calls, evs, bg, sessionFiles, providerFiles, faults>>

Next ==
  \/ Receive
  \/ ReadStudent
  \/ DirectResolveKey
  \/ DirectCall
  \/ CampusResolveKey
  \/ CampusClassify
  \/ RagIssue
  \/ RagReturn
  \/ \E r \in Requests : BgCreateSession(r)
  \/ \E r \in Requests : BgAppendRead(r)
  \/ \E r \in Requests : BgAppendWrite(r)
  \/ \E r \in Requests : BgAppendRewrite(r)
  \/ \E r \in Requests : BgProviderLogRead(r)
  \/ \E r \in Requests : BgProviderLogWrite(r)
  \/ Tick

Spec == Init /\ [][Next]_vars

\* A detached task is a chain of awaited promises: the event loop runs each
\* of its steps once the awaited file operation has settled.
FairSpec ==
  /\ Spec
  /\ \A r \in Requests :
       /\ WF_vars(BgCreateSession(r))
       /\ WF_vars(BgAppendRead(r))
       /\ WF_vars(BgAppendWrite(r))
       /\ WF_vars(BgAppendRewrite(r))
       /\ WF_vars(BgProviderLogRead(r))
       /\ WF_vars(BgProviderLogWrite(r))

(* ------------------- the session store on its own --------------------- *)
\* The turns of one session, seen from the session store: each turn is the
\* detached task of a request that was answered (the handler before it is
\* left out: h stays idle).  The first turn may be the one that minted the
\* session id, and then creates the session file; the later turns carry the
\* id.  In SeqSessionSpec a turn is persisted before the next one starts, in
\* SessionSpec the tasks of several requests run side by side, as Express
\* serves a request while the task of an earlier one awaits the file system.
Appends == 1..MaxAppends
SessEmail == StuA
SessId == KnownSessionId
SessFile == getSessionFile(SessEmail, SessId)

\* messageObj of turn n (the question tells the turns apart)
SessMessage(n) ==
  [BaseMessage EXCEPT !.method = "direct_gemini", !.shape = "direct", !.question = "q" \o ToString(n),
                      !.answer = "D", !.isCampusSearch = FALSE]

SessInit ==
  /\ h = IdleHandler
  /\ nreq = 0
  /\ resp = <<>>
  /\ calls = <<>>
  /\ evs = <<>>
  /\ bg = [r \in Appends |-> NoTask]
  /\ sessionFiles = <<>>
  /\ providerFiles = <<>>
  /\ now = 0
  /\ faults = 0

\* the task of the next turn starts
StartTurn ==
  /\ nreq < MaxAppends
  /\ \E isNewSession \in (IF nreq = 0 THEN {TRUE, FALSE} ELSE {FALSE}) :
       bg' = [bg EXCEPT ![nreq + 1] = NewTask(isNewSession, SessEmail, SessId, SessMessage(nreq + 1), <<>>)]
  /\ nreq' = nreq + 1
  /\ evs' = <<>>
  /\ UNCHANGED <<h, resp, calls, sessionFiles, providerFiles, now, faults>>

\* a turn that starts once the turns before it are persisted
SeqStartTurn ==
  /\ \A r \in Appends : Finished(bg[r])
  /\ StartTurn

\* new Date(): time passes
SessTick ==
  /\ now < MaxClock
  /\ now' = now + 1
  /\ UNCHANGED <<h, nreq, resp, calls, evs, bg, sessionFiles, providerFiles, faults>>

SeqSessionNext ==
  \/ SeqStartTurn
  \/ SessTick
  \/ \E r \in Appends : BgCreateSession(r)
  \/ \E r \in Appends : BgAppendRead(r)
  \/ \E r \in Appends : BgAppendWrite(r)
  \/ \E r \in Appends : BgAppendRewrite(r)

SeqSessionSpec == SessInit /\ [][SeqSessionNext]_vars

SessionNext ==
  \/ StartTurn
  \/ SessTick
  \/ \E r \in Appends : BgCreateSession(r)
  \/ \E r \in Appends : BgAppendRead(r)
  \/ \E r \in Appends : BgAppendWrite(r)
  \/ \E r \in Appends : BgAppendRewrite(r)

SessionSpec == SessInit /\ [][SessionNext]_vars

\* The turns of several sessions: each turn is persisted for one of the
\* pairs (email, sessionId) of ScopePairs, one turn after the other, each
\* with the session id the caller gave (req.query.sessionId, any text).
TraversalId == <<"/", ".", ".", "/">> \o StuB \o <<"_", "_">> \o KnownSessionId
ScopePairs == { <<StuA, KnownSessionId>>, <<StuB, KnownSessionId>>, <<StuA, TraversalId>> }

\* messageObj of a turn of a pair (the question tells the pairs apart)
ScopeQuestion(pair) == "q-" \o ToString(pair)
ScopeMessage(pair) ==
  [BaseMessage EXCEPT !.method = "direct_gemini", !.shape = "direct", !.question = ScopeQuestion(pair),
                      !.answer = "D", !.isCampusSearch = FALSE]

\* the task of the next turn starts, once the tasks before it have ended
ScopeStartTurn ==
  /\ nreq < MaxAppends
  /\ \A r \in Appends : Finished(bg[r])
  /\ \E pair \in ScopePairs :
       bg' = [bg EXCEPT ![nreq + 1] = NewTask(FALSE, pair[1], pair[2], ScopeMessage(pair), <<>>)]
  /\ nreq' = nreq + 1
  /\ evs' = <<>>
  /\ UNCHANGED <<h, resp, calls, sessionFiles, providerFiles, now, faults>>

ScopeNext ==
  \/ ScopeStartTurn
  \/ SessTick
  \/ \E r \in Appends : BgAppendRead(r)
  \/ \E r \in Appends : BgAppendWrite(r)
  \/ \E r \in Appends : BgAppendRewrite(r)

ScopeSpec == SessInit /\ [][ScopeNext]_vars

(* ============================ properties ============================== *)
FsEvents ==
  {"createSessionFile", "appendMessage.read", "appendMessage.write", "appendMessage.rewrite",
   "providerLog.read", "providerLog.write"}

HasEvent(e, ok) == \E i \in DOMAIN evs : evs[i].e = e /\ evs[i].ok = ok

\* the positions of calls that are calls of a knowledge store
RagCalls == {i \in DOMAIN calls : calls[i].svc = "rag"}

C1_EventsAfterResponse ==
  \A i \in DOMAIN evs : evs[i].e \in FsEvents => \E j \in 1..(i - 1) : evs[j].e = "respond"

C1_StoresChangeAfterResponse ==
  (sessionFiles' # sessionFiles \/ providerFiles' # providerFiles) => (Len(resp) = 1 /\ resp' = resp)

C2_Failures ==
  {i \in DOMAIN evs : ~evs[i].ok /\ evs[i].e \in {"createSessionFile", "appendMessage.rewrite", "providerLog.write"}}

C2_OnlyLogged ==
  \A i \in C2_Failures :
    /\ Len(resp) = 1
    /\ resp[1].status = 200
    /\ i < Len(evs) /\ evs[i + 1].e = "logged"
    /\ \A j \in DOMAIN evs : j > i =>
         /\ evs[j].e # "respond"
         /\ ~(evs[j].e = evs[i].e /\ evs[j].n = evs[i].n)
         /\ evs[i].e \in {"createSessionFile", "appendMessage.rewrite"} => evs[j].e \notin FsEvents

C2_ResponseKept == (C2_Failures # {} /\ nreq' = nreq) => resp' = resp

C3_CleanFailureShortCircuits ==
  \A i \in RagCalls :
    calls[i].result \in {"null", "nosuccess", "nodata"} =>
      /\ i = Len(calls)
      /\ h.pc = "done"
      /\ Len(resp) = 1
      /\ resp[1].failedStore = calls[i].store
      /\ resp[1].answer = "Sorry we didn't find any information related to this."

\* C3: the first of two selected stores failed cleanly and the second was
\* never queried
C3_Witness ==
  /\ Len(h.predictedStores) = 2
  /\ Cardinality(RagCalls) = 1
  /\ \E i \in RagCalls : calls[i].result = "nodata" /\ calls[i].store = h.predictedStores[1]
  /\ Len(resp) = 1

\* the elements of a sequence
Range(seq) == {seq[i] : i \in DOMAIN seq}

\* the position of call i among the knowledge-store calls of its request
\* (the classifier call, if any, comes first)
RagPosition(i) == i - (Len(calls) - Cardinality(RagCalls))

\* C4 as stated: once a retrieval call threw, every selected store was
\* queried by the time the handler is done.
C4_Original ==
  (h.pc = "done" /\ \E i \in RagCalls : calls[i].result = "throw")
    => Cardinality(RagCalls) = Len(h.predictedStores)

\* C4 (amended): a retrieval call that threw does not end the request: no
\* error status is sent, ragResults holds for that store the error text and
\* an empty evidence list, the stores are queried in the order of
\* predictedStores, the next store (if any) is queried next, and the request
\* ends only after the last store or at a store that failed cleanly.
C4_ThrowContinues ==
  \A i \in RagCalls :
    calls[i].result = "throw" =>
      LET k == RagPosition(i)
          store == calls[i].store
      IN /\ \A j \in DOMAIN resp : resp[j].status = 200
         /\ \A j \in RagCalls : calls[j].store = h.predictedStores[RagPosition(j)]
         /\ Len(h.ragResults) >= k
         /\ h.ragResults[k] = [store |-> store,
                               answerText |-> "Error processing " \o store \o ": timeout",
                               groundingChunks |-> <<>>]
         /\ k < Len(h.predictedStores) => (h.pc = "ragCall" /\ h.idx = k + 1) \/ i < Len(calls)
         /\ h.pc = "done" =>
              \/ Cardinality(RagCalls) = Len(h.predictedStores)
              \/ calls[Len(calls)].result \in {"null", "nosuccess", "nodata"}

\* C4: the call for the first of two stores threw and the second store was
\* queried and answered
C4_Witness ==
  /\ h.pc = "done"
  /\ Cardinality(RagCalls) = 2
  /\ \E i \in RagCalls : RagPosition(i) = 1 /\ calls[i].result = "throw"
  /\ calls[Len(calls)].result = "ok"
  /\ Len(resp) = 1 /\ resp[1].shape = "campus"

RECURSIVE C5_Sections(_, _)
C5_Sections(rs, n) ==
  IF n = 1 THEN "**" \o rs[1].store \o "**:\n" \o rs[1].answerText
  ELSE C5_Sections(rs, n - 1) \o "\n\n" \o "**" \o rs[n].store \o "**:\n" \o rs[n].answerText

\* C5: the answer of a merged campus response is the answer text of the one
\* result when there is one, and otherwise the sections "**<store>**:\n<answer>"
\* joined by "\n\n", one per selected store in the order of predictedStores.
C5_MergeRule ==
  (Len(resp) = 1 /\ resp[1].shape = "campus") =>
    LET rs == h.ragResults
    IN /\ Len(rs) = Len(h.predictedStores)
       /\ \A k \in DOMAIN rs : rs[k].store = h.predictedStores[k]
       /\ Len(rs) = 1 => resp[1].answer = rs[1].answerText
       /\ Len(rs) >= 2 => resp[1].answer = C5_Sections(rs, Len(rs))

\* C5: the stores fin and lib, selected in this order, both answered (and a
\* single store answered without label, checked by C5_MergeRule)
C5_Witness ==
  /\ Len(resp) = 1
  /\ resp[1].shape = "campus"
  /\ h.predictedStores = <<"fin", "lib">>
  /\ resp[1].answer = "**fin**:\nF\n\n**lib**:\nL"

\* C6 as stated: the stores of the classification are stores of the input
\* list and every key of split_questions is one of these stores.
C6_Original ==
  h.pc \in {"ragCall", "ragWait"} =>
    /\ Range(h.predictedStores) \subseteq Range(StoreNames(h.accessible))
    /\ DOMAIN h.splitQuestions \subseteq Range(h.predictedStores)

\* C7: no error of classifyStores reaches the catch of the handler, and after
\* a classification call that threw the handler goes on with all the stores
\* of the student, no split question and no unanswered fragment.
C7_ClassifierNeverThrows ==
  /\ \A j \in DOMAIN resp : resp[j].details # [defined |-> TRUE, has |-> {"classifier"}]
  /\ \A i \in DOMAIN calls :
       (calls[i].svc = "classifier" /\ calls[i].result = "throw") =>
         /\ h.pc \in {"ragCall", "ragWait", "done"}
         /\ h.predictedStores = StoreNames(h.accessible)
         /\ DOMAIN h.splitQuestions = {}
         /\ h.unanswered = <<>>
         /\ \A j \in DOMAIN resp : resp[j].status = 200

\* C7: the classification call threw and the request was answered from the
\* stores of the student
C7_Witness ==
  /\ \E i \in DOMAIN calls : calls[i].svc = "classifier" /\ calls[i].result = "throw"
  /\ h.pc = "done"
  /\ Len(resp) = 1 /\ resp[1].shape = "campus"

\* C8: in campus mode without any key, for a student with stores, no error
\* status is sent, the classification model is not called, the stores
\* selected are the accessible stores in their order with no split question
\* and no unanswered fragment, and the i-th store queried is the i-th
\* accessible store, asked the question of the request.
C8_NoKeyAllStores ==
  (h.campus /\ h.pc \in {"ragCall", "ragWait", "done"} /\ h.geminiKey = "" /\ Len(h.accessible) > 0) =>
    /\ \A j \in DOMAIN resp : resp[j].status = 200
    /\ \A i \in DOMAIN calls : calls[i].svc = "rag"
    /\ h.predictedStores = StoreNames(h.accessible)
    /\ DOMAIN h.splitQuestions = {}
    /\ h.unanswered = <<>>
    /\ \A i \in DOMAIN calls : calls[i].q = h.question /\ calls[i].store = h.accessible[i].storeName

\* C8: without key both accessible stores were queried and the answer sent
C8_Witness ==
  /\ h.campus /\ h.pc = "done" /\ h.geminiKey = ""
  /\ Len(calls) = 2 /\ calls[2].result = "ok"
  /\ Len(resp) = 1 /\ resp[1].shape = "campus"

\* C9: a campus request of a student without accessible stores is done with
\* one response of status 200 whose answer is the fixed text and whose
\* storesUsed is empty, and no model or knowledge store was called.
C9_ZeroStores ==
  (h.campus /\ Len(h.accessible) = 0) =>
    /\ h.pc = "done"
    /\ Len(resp) = 1
    /\ resp[1].status = 200
    /\ resp[1].answer = "No RAG stores available for your account."
    /\ resp[1].storesUsed = <<>>
    /\ calls = <<>>

\* C9: the student without stores asked in campus mode and was answered
C9_Witness ==
  /\ h.campus /\ h.email = StuB /\ h.pc = "done"
  /\ Len(resp) = 1 /\ resp[1].shape = "noStoresAvailable"

\* C10 as stated: once the request of a student without stores is over (the
\* handler returned and no persistence task is left to run), a session
\* transcript holds the message of that turn.
C10_Original ==
  (h.campus /\ Len(h.accessible) = 0 /\ h.pc = "done" /\ \A r \in Requests : Finished(bg[r])) =>
    \E f \in DOMAIN sessionFiles :
      \E k \in DOMAIN sessionFiles[f].messages :
        sessionFiles[f].messages[k].answer = "No RAG stores available for your account."

\* the transcript of the current request: the session file of its email and
\* session id, the empty session when there is none
Transcript ==
  LET file == getSessionFile(h.email, h.currentSessionId)
  IN IF file \in DOMAIN sessionFiles THEN sessionFiles[file] ELSE NoSession

\* the last message of a transcript
LastMessage(session) == session.messages[Len(session.messages)]

\* C11: when the classification holds no store, the one response has status
\* 200, the answer "Sorry, none of the departments can answer this.", an
\* empty storesUsed and the unanswered list of the classification, no
\* knowledge store was queried, and once the persistence task has ended
\* without failure the last message of the transcript of the returned
\* session id carries that answer and the unanswered list as unresolvedParts.
C11_NoStoreSelected ==
  (h.classified /\ Len(h.predictedStores) = 0) =>
    /\ h.pc = "done"
    /\ Len(resp) = 1
    /\ resp[1].status = 200
    /\ resp[1].answer = "Sorry, none of the departments can answer this."
    /\ resp[1].storesUsed = <<>>
    /\ resp[1].unanswered = h.unanswered
    /\ resp[1].sessionId = h.currentSessionId
    /\ RagCalls = {}
    /\ bg[nreq].pc = "done" =>
         /\ Len(Transcript.messages) >= 1
         /\ LastMessage(Transcript).answer = "Sorry, none of the departments can answer this."
         /\ LastMessage(Transcript).unresolvedParts = h.unanswered
         /\ LastMessage(Transcript).storesUsed = <<>>

\* C11: the classifier selected no store and left one fragment unanswered;
\* the fragment is in the response and in the transcript
C11_Witness ==
  /\ h.classified /\ Len(h.predictedStores) = 0
  /\ h.unanswered = <<Fragment>>
  /\ Len(resp) = 1 /\ resp[1].unanswered = <<Fragment>>
  /\ bg[nreq].pc = "done"
  /\ LastMessage(Transcript).unresolvedParts = <<Fragment>>

\* C12: a request without email or without question is answered 400 at once,
\* and a request with both whose email is no student's is answered 404 by the
\* student lookup; in both cases this is the only response, no model,
\* classifier or knowledge store was called before or after it, and no
\* persistence task was started.
C12_HardStops ==
  /\ (h.pc # "idle" /\ (~Truthy(h.email) \/ ~Truthy(h.question))) =>
        /\ h.pc = "done"
        /\ Len(resp) = 1 /\ resp[1].status = 400 /\ resp[1].error = "email & question required"
        /\ calls = <<>>
        /\ bg[nreq].pc = "none"
  /\ (h.pc # "idle" /\ Truthy(h.email) /\ Truthy(h.question) /\ h.email \notin DOMAIN Students) =>
        /\ calls = <<>>
        /\ bg[nreq].pc = "none"
        /\ \/ h.pc = "readStudent" /\ resp = <<>>
           \/ /\ h.pc = "done"
              /\ Len(resp) = 1 /\ resp[1].status = 404 /\ resp[1].error = "Student not found"

\* C12: a question of an unknown email was answered 404
C12_Witness ==
  /\ h.pc = "done" /\ h.email = StuGone /\ h.question = Question
  /\ Len(resp) = 1 /\ resp[1].status = 404
  /\ calls = <<>>

\* the positions and the response shapes of each of the two paths
DirectPositions == {"directKey", "directCall"}
CampusPositions == {"campusKey", "classify", "ragCall", "ragWait"}
DirectShapes == {"noKey", "noModel", "direct", "geminiError"}
CampusShapes == {"noStoresAvailable", "noDepartment", "ragFailed", "campus", "internal"}

\* C13: once the student was found, the request is on the campus path when
\* the flag is anything but the string "false" or the boolean false (absent
\* included) and on the direct path for these two; a request on one path is
\* at no position of the other, made no call of the other and was sent no
\* response of the other.
C13_FlagDefault ==
  /\ (h.flag \in FlagValues /\ h.pc \in DirectPositions \cup CampusPositions \cup {"done"}
        /\ Truthy(h.email) /\ Truthy(h.question)) =>
       /\ h.campus <=> h.flag \notin {"false", "FALSE"}
       /\ h.pc \in (IF h.campus THEN {"campusKey", "done"} ELSE {"directKey"})
  /\ h.pc \in DirectPositions => ~h.campus
  /\ h.pc \in CampusPositions => h.campus
  /\ h.campus =>
       /\ \A i \in DOMAIN calls : calls[i].svc \in {"classifier", "rag"}
       /\ \A j \in DOMAIN resp : resp[j].shape \in CampusShapes
  /\ (~h.campus /\ h.pc # "idle") =>
       /\ \A i \in DOMAIN calls : calls[i].svc = "gemini"
       /\ \A j \in DOMAIN resp : resp[j].shape \in DirectShapes \cup {"missing", "notFound"}

\* C13: a request without the flag is on the campus path
C13_Witness ==
  /\ h.flag = "absent" /\ h.pc = "campusKey" /\ h.campus /\ h.email = StuA

\* an id of the form the handler mints, whatever the time it was minted at
IsMinted(id) == \E t \in 0..MaxClock, c \in RandomSuffixes : id = <<"m", ToString(t), c>>

\* C14 as stated: every answering response (status 200) returns the session
\* id of the request when the request carries one, and otherwise an id
\* minted for this turn, the turn being marked as a new session.
C14_Original ==
  \A j \in DOMAIN resp :
    resp[j].status = 200 =>
      IF Truthy(h.sessionId)
        THEN resp[j].sessionId = h.sessionId
        ELSE /\ IsMinted(resp[j].sessionId)
             /\ h.isNewSession

\* the direct-mode model calls of the current request
GeminiCalls == {i \in DOMAIN calls : calls[i].svc = "gemini"}

\* the current request was answered in direct mode
C15_DirectSuccess == Len(resp) = 1 /\ resp[1].shape = "direct"

\* the last message of the transcript of the returned session id is the
\* direct-mode message of this turn
C15_Appended ==
  /\ resp[1].sessionId = h.currentSessionId
  /\ Len(Transcript.messages) >= 1
  /\ LastMessage(Transcript).method = "direct_gemini"
  /\ LastMessage(Transcript).answer = resp[1].answer
  /\ LastMessage(Transcript).question = h.question

C15_OneOutcome ==
  /\ \A i \in GeminiCalls :
       /\ Cardinality(GeminiCalls) = 1
       /\ Len(resp) = 1
       /\ h.pc = "done"
       /\ calls[i].result = "ok" => (resp[1].status = 200 /\ resp[1].shape = "direct")
       /\ calls[i].result = "throw" =>
            /\ resp[1].shape = "geminiError"
            /\ resp[1].status \in {401, 429, 503, 400, 500}
            /\ bg[nreq].pc = "none"
  /\ C15_DirectSuccess => \E i \in GeminiCalls : calls[i].result = "ok"
  /\ (C15_DirectSuccess /\ bg[nreq].pc = "done") => C15_Appended

C16_Auth == {"API key", "auth"}
C16_Quota == {"quota", "exceeded"}
C16_Connectivity == {"network", "connect"}
C16_Model == {"model"}

\* C16: the response to a direct-mode model call that threw has the status
\* of the first category its message falls in, in the order authentication
\* (401), quota (429), connectivity (503), model (400), and 500 when it falls
\* in none; the status tells the category, and the body carries an error
\* text, the message as details and the suggestion.
C16_ErrorMapping ==
  \A j \in DOMAIN resp :
    resp[j].shape = "geminiError" =>
      LET words == resp[j].details.has
          auth == words \cap C16_Auth # {}
          quota == ~auth /\ words \cap C16_Quota # {}
          conn == ~auth /\ ~quota /\ words \cap C16_Connectivity # {}
          model == ~auth /\ ~quota /\ ~conn /\ words \cap C16_Model # {}
      IN /\ resp[j].status = 401 <=> auth
         /\ resp[j].status = 429 <=> quota
         /\ resp[j].status = 503 <=> conn
         /\ resp[j].status = 400 <=> model
         /\ resp[j].status = 500 <=> (~auth /\ ~quota /\ ~conn /\ ~model)
         /\ resp[j].error # ""
         /\ resp[j].details.defined
         /\ resp[j].suggestion
         /\ \E i \in GeminiCalls : calls[i].result = "throw"

\* C16: a message that names both a connection and a model was answered 503
C16_Witness ==
  /\ Len(resp) = 1 /\ resp[1].shape = "geminiError"
  /\ resp[1].details.has = {"connect", "model"}
  /\ resp[1].status = 503

\* C17: in direct mode, once the key is resolved, it is the key of the
\* university when there is one and the key of the environment otherwise;
\* when there is neither, the request is over with the one response of status
\* 400 "No API key available for Gemini call", no model was called, no
\* persistence task was started and no file operation was made.
C17_DirectKey ==
  (~h.campus /\ h.flag = "read" /\ h.pc \in {"directCall", "done"} /\ h.email \in DOMAIN Students) =>
    /\ h.uniKey # "" => h.geminiKey = h.uniKey
    /\ h.uniKey = "" => h.geminiKey = h.envKey
    /\ (h.uniKey = "" /\ h.envKey = "") =>
         /\ h.pc = "done"
         /\ Len(resp) = 1 /\ resp[1].status = 400
         /\ resp[1].error = "No API key available for Gemini call"
         /\ calls = <<>>
         /\ bg[nreq].pc = "none"
         /\ \A i \in DOMAIN evs : evs[i].e \notin FsEvents
    /\ (h.uniKey # "" \/ h.envKey # "") =>
         \A j \in DOMAIN resp : resp[j].shape # "noKey"

\* C17: a direct request with both keys was answered with the key of the
\* university (and the request without any key was answered 400, checked by
\* C17_DirectKey)
C17_Witness ==
  /\ ~h.campus /\ h.pc = "done"
  /\ h.uniKey = "K-uni" /\ h.envKey = "K-env" /\ h.geminiKey = "K-uni"
  /\ Len(resp) = 1 /\ resp[1].shape = "direct"

\* the transcript of the session of the session store specifications
SessTranscript == IF SessFile \in DOMAIN sessionFiles THEN sessionFiles[SessFile] ELSE NoSession

\* the turns whose append completed, in the order they were made
RECURSIVE DoneTurns(_)
DoneTurns(n) ==
  IF n = 0 THEN <<>>
  ELSE DoneTurns(n - 1) \o (IF bg[n].pc = "done" THEN <<n>> ELSE <<>>)

C18_Reread ==
  (\A r \in Appends : Finished(bg[r])) =>
    LET turns == DoneTurns(nreq)
        messages == SessTranscript.messages
    IN /\ Len(messages) = Len(turns)
       /\ \A k \in DOMAIN turns : messages[k].question = "q" \o ToString(turns[k])

C18_UpdatedAt ==
  (SessFile \in DOMAIN sessionFiles /\ SessFile \in DOMAIN sessionFiles') =>
    sessionFiles'[SessFile].updatedAt >= sessionFiles[SessFile].updatedAt

\* C18 as stated: when the turns of a session are appended one after the
\* other, the transcript read after N completed appends holds exactly the N
\* messages of these appends in their order, and updatedAt never decreases.
C18_Original ==
  /\ []C18_Reread
  /\ [][C18_UpdatedAt]_vars

\* a is an initial part of b
IsPrefix(a, b) == Len(a) <= Len(b) /\ SubSeq(b, 1, Len(a)) = a

C19_Grows ==
  \A f \in DOMAIN sessionFiles :
    /\ f \in DOMAIN sessionFiles'
    /\ IsPrefix(sessionFiles[f].messages, sessionFiles'[f].messages)

\* C19 as stated: in every step, with the tasks of several requests of one
\* session running side by side and with failing reads and writes, the
\* messages of a transcript before the step are an initial part of its
\* messages after the step: no message is removed, replaced or altered.
C19_Original == [][C19_Grows]_vars

\* the texts of the evidence chunks of the first n results, in order, a
\* chunk without text left out
RECURSIVE C20_Evidence(_, _)
C20_Evidence(rs, n) ==
  IF n = 0 THEN <<>>
  ELSE LET chunks == rs[n].groundingChunks
           texts == [i \in DOMAIN chunks |-> chunks[i].text]
       IN C20_Evidence(rs, n - 1) \o SelectSeq(texts, LAMBDA t : t # "")

\* C20: in a merged campus answer the results are those of the selected
\* stores in query order; the response's grounding is the first 10 evidence
\* texts of these results (all of them when there are fewer), totalGrounding
\* is the number of all of them, and the message appended to the transcript
\* holds all of them.
C20_EvidenceAggregation ==
  (Len(resp) = 1 /\ resp[1].shape = "campus") =>
    LET all == C20_Evidence(h.ragResults, Len(h.ragResults))
        total == Len(all)
    IN /\ \A k \in DOMAIN h.ragResults : h.ragResults[k].store = h.predictedStores[k]
       /\ Len(resp[1].grounding) = (IF total < 10 THEN total ELSE 10)
       /\ \A k \in DOMAIN resp[1].grounding : resp[1].grounding[k] = all[k]
       /\ resp[1].totalGrounding = total
       /\ bg[nreq].pc = "done" =>
            /\ Len(Transcript.messages) >= 1
            /\ LastMessage(Transcript).grounding = all

\* C20: two stores gave eleven evidence texts: ten are in the response, all
\* eleven in the transcript
C20_Witness ==
  /\ Len(resp) = 1 /\ resp[1].shape = "campus"
  /\ h.predictedStores = <<"lib", "fin">>
  /\ resp[1].totalGrounding = 11
  /\ Len(resp[1].grounding) = 10
  /\ resp[1].grounding[7] = "fin1" /\ resp[1].grounding[8] = "fin3"
  /\ bg[nreq].pc = "done"
  /\ Len(LastMessage(Transcript).grounding) = 11

\* C21: at most one retrieval call is in flight, and it is the last call made
\* while the handler waits for it; the k-th retrieval call of a request is
\* for the k-th store of predictedStores, so that a call is made only when
\* all the calls before it have returned or thrown.
C21_Sequential ==
  /\ \A i \in RagCalls :
       /\ RagPosition(i) \in 1..Len(h.predictedStores)
       /\ calls[i].store = h.predictedStores[RagPosition(i)]
       /\ calls[i].result = "pending" => (i = Len(calls) /\ h.pc = "ragWait" /\ h.idx = RagPosition(i))
       /\ i < Len(calls) => calls[i].result \in {"ok", "throw"}
  /\ Cardinality({i \in RagCalls : calls[i].result = "pending"}) <= 1
  /\ h.pc = "ragWait" => (Len(calls) >= 1 /\ calls[Len(calls)].result = "pending")

\* C21: the classifier selected fin before lib; the call for fin returned and
\* the call for lib is in flight
C21_Witness ==
  /\ h.predictedStores = <<"fin", "lib">>
  /\ h.pc = "ragWait"
  /\ Cardinality(RagCalls) = 2
  /\ \E i \in RagCalls : calls[i].store = "fin" /\ calls[i].result = "ok" /\ i < Len(calls)
  /\ calls[Len(calls)].store = "lib" /\ calls[Len(calls)].result = "pending"

C22_OneResponse ==
  /\ Len(resp) <= 1
  /\ h.pc = "done" => Len(resp) = 1
  /\ h.pc \in {"readStudent"} \cup DirectPositions \cup CampusPositions => resp = <<>>
  /\ \A j \in DOMAIN resp : resp[j].shape = "internal" => (j = 1 /\ resp[j].status = 500)
  /\ \A i \in DOMAIN evs : evs[i].e = "respond" => i = 1

C22_NoSecondResponse == (Len(resp) = 1 /\ nreq' = nreq) => resp' = resp

C23_Original ==
  \A f \in DOMAIN sessionFiles :
    \A i, j \in DOMAIN sessionFiles[f].messages :
      sessionFiles[f].messages[i].question = sessionFiles[f].messages[j].question

\* the provider log entries of the task of the current request
C24_Logs == bg[nreq].logs

\* C24 as stated: a store is asked its entry of split_questions when the
\* classification has one for it, and the question of the request otherwise.
C24_Original ==
  \A i \in RagCalls :
    calls[i].q = (IF calls[i].store \in DOMAIN h.splitQuestions
                    THEN h.splitQuestions[calls[i].store]
                    ELSE h.question)

\* C24 (amended): a store is asked its entry of split_questions when the
\* classification has one for it that is not the empty text, and the question
\* of the request otherwise; the provider log entry of a store carries the
\* same question.
C24_SubQuestion ==
  /\ \A i \in RagCalls :
       calls[i].q = (IF calls[i].store \in DOMAIN h.splitQuestions /\ h.splitQuestions[calls[i].store] # ""
                       THEN h.splitQuestions[calls[i].store]
                       ELSE h.question)
  /\ nreq >= 1 =>
       \A k \in DOMAIN C24_Logs :
         LET store == C24_Logs[k].doc.store_name
         IN C24_Logs[k].doc.question =
              (IF store \in DOMAIN h.splitQuestions /\ h.splitQuestions[store] # ""
                 THEN h.splitQuestions[store]
                 ELSE h.question)

\* C24: lib was asked its part of the question, fin, which has no entry, the
\* question itself, and the task holds the log entries of both
C24_Witness ==
  /\ DOMAIN h.splitQuestions = {"lib"}
  /\ \E i \in RagCalls : calls[i].store = "lib" /\ calls[i].q = "q-lib"
  /\ \E i \in RagCalls : calls[i].store = "fin" /\ calls[i].q = h.question
  /\ nreq >= 1 /\ Len(C24_Logs) >= 2

\* the handler after classifyStores returned the classification v (lines
\* 434-484): a null classification ends in the catch of the handler, one
\* without stores is answered at once, any other goes on to its first store
C25_Follows(v) ==
  IF v.isNull
    THEN h.pc = "done" /\ Len(resp) = 1 /\ resp[1].status = 500
  ELSE IF Len(v.stores) = 0
    THEN /\ h.pc = "done" /\ Len(resp) = 1
         /\ resp[1].shape = "noDepartment" /\ resp[1].unanswered = v.unanswered
  ELSE /\ h.pc = "ragCall" /\ resp = <<>>
       /\ h.predictedStores = v.stores
       /\ h.splitQuestions = v.split_questions
       /\ h.unanswered = v.unanswered

\* the classification model answered with a text that is not empty
C25_Answered == h.modelOut.called /\ ~h.modelOut.threw /\ Len(h.modelOut.txt) > 0

C25_FallbackWitness ==
  /\ C25_Answered
  /\ h.modelOut.txt = <<TokJunk, TokOpen, TokBadBody, TokClose>>
  /\ h.pc = "ragCall"
  /\ Len(h.predictedStores) = 2

\* C30: when the classification model answers with the empty text, the
\* request is answered with status 200 and the text "Sorry, none of the
\* departments can answer this.", with no store used, and no knowledge store
\* is queried.
C30_EmptyText ==
  (h.modelOut.called /\ ~h.modelOut.threw /\ Len(h.modelOut.txt) = 0) =>
    /\ h.pc = "done"
    /\ Len(h.predictedStores) = 0
    /\ Len(resp) = 1
    /\ resp[1].status = 200
    /\ resp[1].shape = "noDepartment"
    /\ resp[1].answer = "Sorry, none of the departments can answer this."
    /\ resp[1].storesUsed = <<>>
    /\ RagCalls = {}

\* C30: the model answered the empty text for a student with stores and the
\* fixed answer was sent
C30_Witness ==
  /\ h.modelOut.called /\ ~h.modelOut.threw /\ Len(h.modelOut.txt) = 0
  /\ Len(h.accessible) = 2
  /\ Len(resp) = 1 /\ resp[1].shape = "noDepartment"
  /\ \E i \in DOMAIN calls : calls[i].svc = "classifier" /\ calls[i].result = "text"

\* the current request was answered with the clean failure of a store
C26_CleanFailure == Len(resp) = 1 /\ resp[1].shape = "ragFailed"
C26_Store == resp[1].failedStore
C26_Owner == AccountOf(h.accessible, C26_Store)
C26_TaskOver == bg[nreq].pc \in {"done", "failed"}

\* the last entry of the log of the owner of the failed store is the entry
\* of this failure: its error, the store and the question the store was asked
C26_Logged ==
  /\ Truthy(C26_Owner)
  /\ getProviderFile(C26_Owner) \in DOMAIN providerFiles
  /\ LET log == providerFiles[getProviderFile(C26_Owner)]
     IN /\ Len(log) >= 1
        /\ log[Len(log)].error = "RAG call failed"
        /\ log[Len(log)].store_name = C26_Store
        /\ log[Len(log)].provider_email = C26_Owner
        /\ log[Len(log)].user_email = h.email
        /\ log[Len(log)].question = calls[Len(calls)].q
        /\ ~log[Len(log)].hasResponse

C26_NoFailure ==
  \A i \in DOMAIN evs :
    evs[i].e \in {"createSessionFile", "appendMessage.rewrite", "providerLog.write"} => evs[i].ok

C26_Outcome ==
  C26_CleanFailure =>
    /\ calls[Len(calls)].svc = "rag" /\ calls[Len(calls)].store = C26_Store
    /\ CleanFailure(calls[Len(calls)].result)
    /\ (C26_TaskOver /\ Truthy(C26_Owner) /\ C26_NoFailure) => C26_Logged
    /\ ~Truthy(C26_Owner) =>
         \A i \in DOMAIN evs : evs[i].e \notin {"providerLog.read", "providerLog.write"}

C27_LateFailure == C26_CleanFailure /\ Cardinality(RagCalls) >= 2

C27_Discarded ==
  C27_LateFailure =>
    /\ \A i \in RagCalls : i < Len(calls) => ~CleanFailure(calls[i].result)
    /\ resp[1].answer = "Sorry we didn't find any information related to this."
    /\ resp[1].grounding = <<>> /\ resp[1].totalGrounding = 0
    /\ resp[1].storesUsed = <<>>
    /\ resp[1].failedStore = calls[Len(calls)].store
    /\ bg[nreq].pc \notin {"none", "done", "failed"} =>
         /\ bg[nreq].msg.storesUsed = <<C26_Store>>
         /\ bg[nreq].msg.grounding = <<>>
         /\ bg[nreq].msg.answer = resp[1].answer
         /\ \A k \in DOMAIN bg[nreq].logs : bg[nreq].logs[k].doc.store_name = C26_Store
    /\ bg[nreq].pc = "done" =>
         /\ Len(Transcript.messages) >= 1
         /\ LastMessage(Transcript).storesUsed = <<C26_Store>>
         /\ LastMessage(Transcript).grounding = <<>>
         /\ LastMessage(Transcript).answer = resp[1].answer
    /\ \A i \in DOMAIN evs : evs[i].e \in {"providerLog.read", "providerLog.write"} => evs[i].n = 1

\* a provider log changes after a late failure only by one more entry, the
\* entry of the failed store
C27_LogStep ==
  (C27_LateFailure /\ providerFiles' # providerFiles) =>
    \E f \in DOMAIN providerFiles' :
      LET log == providerFiles'[f]
      IN /\ Len(log) >= 1
         /\ log[Len(log)].store_name = C26_Store /\ log[Len(log)].error = "RAG call failed"
         /\ \A g \in DOMAIN providerFiles' \ {f} :
              g \in DOMAIN providerFiles /\ providerFiles'[g] = providerFiles[g]
         /\ f \in DOMAIN providerFiles =>
              SubSeq(log, 1, Len(log) - 1) \in {providerFiles[f], <<>>}

\* C27: when the call of a store fails cleanly after the calls of earlier
\* stores of the request returned, the response has the fixed failure answer
\* and no evidence, the session message of the turn has the failed store as
\* its only store used and no grounding, and the only provider log entry
\* written for the request is that of the failed store.
C27_EarlierDiscarded == []C27_Discarded /\ [][C27_LogStep]_vars

\* C27: lib answered, fin then failed cleanly, and the message of the turn in
\* the transcript names fin alone
C27_Witness ==
  /\ C27_LateFailure
  /\ calls[1].store = "lib" /\ calls[1].result = "ok"
  /\ C26_Store = "fin"
  /\ bg[nreq].pc = "done"
  /\ LastMessage(Transcript).storesUsed = <<"fin">>

\* the current request was answered with the merged answer of its k stores
C28_Merged == Len(resp) = 1 /\ resp[1].shape = "campus"
C28_K == Len(h.ragResults)
C28_LogEvents == {i \in DOMAIN evs : evs[i].e \in {"providerLog.read", "providerLog.write"}}
C28_LogWrites == SelectSeq(evs, LAMBDA e : e.e = "providerLog.write")
C28_Appended ==
  \E i \in DOMAIN evs : evs[i].e \in {"appendMessage.write", "appendMessage.rewrite"} /\ evs[i].ok
C28_AppendThrew == HasEvent("appendMessage.rewrite", FALSE)

\* C28 as stated: once the task of a merged answer is over, either the
\* session append threw and no provider log was touched, or the message was
\* appended and all k log entries were written.
C28_Original ==
  (C28_Merged /\ bg[nreq].pc \in {"done", "failed"}) =>
    IF C28_AppendThrew
      THEN C28_LogEvents = {}
      ELSE /\ C28_Appended
           /\ Len(C28_LogWrites) = C28_K
           /\ \A i \in DOMAIN C28_LogWrites : C28_LogWrites[i].ok

C28_Order ==
  C28_Merged =>
    /\ \A i \in C28_LogEvents :
         \E j \in 1..(i - 1) : evs[j].e \in {"appendMessage.write", "appendMessage.rewrite"} /\ evs[j].ok
    /\ \A i \in DOMAIN C28_LogWrites : C28_LogWrites[i].n = i
    /\ Len(C28_LogWrites) <= C28_K
    /\ bg[nreq].pc = "done" => (C28_Appended /\ Len(C28_LogWrites) = C28_K)
    /\ bg[nreq].pc = "failed" => (C28_AppendThrew \/ HasEvent("createSessionFile", FALSE))
    /\ (C28_AppendThrew \/ HasEvent("createSessionFile", FALSE)) => C28_LogEvents = {}

\* a provider log changes after a merged answer only by the write of the
\* entry of the next processed store, at the end of the log of its provider
C28_LogStep ==
  (C28_Merged /\ providerFiles' # providerFiles) =>
    /\ bg[nreq].pc = "plWrite"
    /\ LET li == bg[nreq].li
           r == h.ragResults[li]
           owner == AccountOf(h.accessible, r.store)
           f == getProviderFile(IF Truthy(owner) THEN owner ELSE <<"u", "n", "k", "n", "o", "w", "n">>)
       IN /\ evs' = Append(evs, Event("providerLog.write", TRUE, li))
          /\ f \in DOMAIN providerFiles'
          /\ LET log == providerFiles'[f]
             IN /\ Len(log) >= 1
                /\ log[Len(log)].store_name = r.store
                /\ log[Len(log)].provider_email = owner
                /\ log[Len(log)].hasResponse
                /\ log[Len(log)].response = r.answerText \o "..."
          /\ \A g \in DOMAIN providerFiles' \ {f} :
               g \in DOMAIN providerFiles /\ providerFiles'[g] = providerFiles[g]

\* C28 (amended): after a merged campus answer over k processed stores the
\* task touches a provider log only after the session message was appended,
\* and then calls appendProviderLog once per processed store, in processing
\* order, stores whose call threw included: a task that ends normally made k
\* such calls.  A call whose write succeeds puts the entry of its store at
\* the end of the log of the store's provider, the "unknown" log when the
\* store has no owning account; a call whose write fails is only logged, and
\* its entry is missing.  When createSessionFile or the session append
\* throws, no provider log is read or written.
C28_LogsAfterMessage == []C28_Order /\ [][C28_LogStep]_vars

\* C28: ghost, fin and lib were processed, the three entries written in this
\* order, those of ghost and fin in the "unknown" log
C28_Witness ==
  /\ C28_Merged /\ C28_K = 3
  /\ h.ragResults[1].store = "ghost"
  /\ \E i \in RagCalls : calls[i].result = "throw"
  /\ bg[nreq].pc = "done"
  /\ Len(C28_LogWrites) = 3 /\ \A i \in 1..3 : C28_LogWrites[i].ok
  /\ getProviderFile(UnknownProvider) \in DOMAIN providerFiles
  /\ Len(providerFiles[getProviderFile(UnknownProvider)]) = 2
  /\ providerFiles[getProviderFile(UnknownProvider)][1].store_name = "ghost"

\* the statuses of the error responses of the handler
C29_ErrorStatuses == {400, 401, 404, 429, 500, 503}

\* the current request was answered with an error status
C29_ErrorAnswered == \E j \in DOMAIN resp : resp[j].status # 200

C29_NoTask ==
  C29_ErrorAnswered =>
    /\ Len(resp) = 1 /\ resp[1].status \in C29_ErrorStatuses
    /\ h.pc = "done"
    /\ bg[nreq].pc = "none"
    /\ \A i \in DOMAIN evs : evs[i].e \notin FsEvents

\* the stores change only while the current request has its one response
\* and that response is a success
C29_StoreStep ==
  (sessionFiles' # sessionFiles \/ providerFiles' # providerFiles) =>
    /\ Len(resp) = 1 /\ resp[1].status = 200
    /\ resp' = resp

\* C29: a request answered with an error status (400, 401, 404, 429, 500 or
\* 503) starts no persistence task and does no file operation, and from its
\* arrival to the arrival of the next request the session store and the
\* provider log store stay as they were.
C29_ErrorsLeaveStores == []C29_NoTask /\ [][C29_StoreStep]_vars

\* C29: a direct-mode model call that threw was answered 429 and the stores
\* are untouched
C29_Witness ==
  /\ h.pc = "done"
  /\ Len(resp) = 1 /\ resp[1].status = 429 /\ resp[1].shape = "geminiError"
  /\ bg[nreq].pc = "none"
  /\ evs = <<Event("respond", TRUE, 0)>>

====
